---- MODULE Spec2Model ----
(***************************************************************************)
(* Overlay timeline editor of clipper-ai-fe (src/components/VideoEditor.tsx)*)
(*                                                                         *)
(* Numbers of the program are floats; the model keeps them exact by        *)
(* scaling: normalized positions are counted in hundredths (x = 0.5 is 50),*)
(* times in tenths of a second (0.5 s is 5).  The pixel sizes and pointer  *)
(* coordinates that the actions draw are chosen so that every division     *)
(* the handlers make is exact in these units.                              *)
(***************************************************************************)
EXTENDS Integers, Sequences, FiniteSets, TLC

\* ---------------------------------------------------------------- bounds
MaxIds == 2             \* ids generateId hands out in the position/list runs
MaxTimelineIds == 1     \* ids generateId hands out in the timeline runs
MaxDrags == 1           \* pointer-down events of one run
MaxDowns == 2           \* pointer-down events of one run of the drag sessions
MaxProjects == 21       \* project ids of one run of the project store

\* ---------------------------------------------------------------- units
PosScale == 100
TimeScale == 10

\* ------------------------------------------------------ program constants
SNAP_THRESHOLD == 3
MIN_SEGMENT == 5
HalfPos == 50
DefaultY == 85
DefaultFontSize == 36
DefaultSpan == 30
NullId == 0
STORE_LIMIT == 20

Null == <<>>
Num(n) == <<n>>
Resolve(v, d) == IF v = Null THEN d ELSE v[1]

Min(a, b) == IF a < b THEN a ELSE b
Max(a, b) == IF a > b THEN a ELSE b
Abs(a) == IF a < 0 THEN 0 - a ELSE a

\* ----------------------------------------------------------------- inputs
Ids == 1..MaxIds
Moments == { [id |-> "m1", startTime |-> 100, endTime |-> 200] }
Texts == {"hi"}
Tabs == {"subtitle", "trim"}
Edges == {"left", "right", "move"}
\* pointer positions (pixels) and sizes of the video wrapper (pixels)
PosDownXs == {3, 103}
PosDownYs == {35}
PosMoveXs == {0, 1, 3, 103}
PosMoveYs == {0, 135}
PosRects == { <<100, 100>>, <<50, 50>> }
\* pointer positions (pixels) and widths of the timeline track (pixels)
TimelineDownXs == {4}
TimelineMoveXs == {0, 5, 20}
TimelineWidths == {10}
\* values of the range inputs and offsets of the click on the track (pixels)
TrimStarts == {0, 50}
TrimEnds == {0, 0 - 80}
FormStarts == {40}
FormEnds == {20}
ClickXs == {10}
TrackClickXs == {0, 5, 10}
\* playback: the seek buttons, the steps of the playing video (tenths of a
\* second) and what the source video has left after the end of the moment
SeekDeltas == {0 - 50, 50}
PlaySteps == {50}
VideoTail == 50
PlayMoveXs == {20}
\* the layer runs: what is typed into the text field, and the places of the
\* track that are clicked to move the playhead
LayerTexts == {"hi", " "}
LayerClickXs == {5, 10}
\* the project store: the projects saved again, the projects deleted, and the
\* fields of a project that is saved
ResaveIds == {1}
DeleteIds == {1, 3}
ProjectNames == {"a", "b"}
Undefined == "undefined"
ProjectUrls == {Undefined, "blob:1"}
\* patches of the form controls: Center button, Start slider, colour input;
\* pointer position of the press in the list runs
Patches == { [x |-> HalfPos, y |-> HalfPos], [startSec |-> Num(40)],
             [color |-> "#FF0000"] }
ListDownXs == {3}
\* pointer positions of the runs of the drag sessions
DragPosMoveXs == {1, 103}
DragPosMoveYs == {0}
DragPosRects == { <<100, 100>> }
DragTimelineMoveXs == {5, 20}

NullEdge == "null"
NoRef == <<>>
NoEffect == <<>>
NoCall == [op |-> "none"]

\* overlay handed to the editor in its edits prop: startSec/endSec may be null
NullOverlay ==
  [id |-> 1, text |-> "intro", x |-> HalfPos, y |-> DefaultY,
   fontSize |-> DefaultFontSize, color |-> "#FFFFFF",
   startSec |-> Null, endSec |-> Null, bold |-> TRUE]

\* updates that reach handleUpdateEdits from outside the runs of the editor
AppEdits == { [textOverlays |-> list, trimStart |-> 0, trimEnd |-> 0] :
                list \in { <<>>, <<NullOverlay>> } }

VARIABLES
  moment,               \* props.moment
  edits,                \* props.edits = clipEdits[editingMoment.id]
  currentTime,          \* useState currentTime
  videoTime,            \* videoRef.current.currentTime
  activeTab,
  selectedOverlayId,
  expandedId,
  newText,
  draggingTextId,
  snapGuides,
  dragStartRef,
  draggingTimelineId,
  draggingTimelineEdge,
  timelineDragRef,
  textEffect,           \* closure of the registered position-drag listeners
  timelineEffect,       \* closure of the registered timeline-drag listeners
  textListeners,        \* mousemove/mouseup pairs the position-drag effect holds on window
  timelineListeners,    \* mousemove/mouseup pairs the timeline-drag effect holds on window
  nextId,               \* ids generateId has handed out
  drags,                \* pointer-down events so far
  isPlaying,            \* useState isPlaying
  editingMoment,        \* App: useState editingMoment
  clipEdits,            \* App: useState clipEdits, by moment id
  isExporting,          \* App: useState isExporting
  exportingId,          \* App: useState exportingId
  exports,              \* App: position of the handleExportClip call of each clip
  storage,              \* localStorage[STORAGE_KEY], parsed
  lastCall              \* history: the handler of the last step and its inputs

editorVars == <<moment, edits, currentTime, videoTime, activeTab, selectedOverlayId,
          expandedId, newText, draggingTextId, snapGuides, dragStartRef,
          draggingTimelineId, draggingTimelineEdge, timelineDragRef,
          textEffect, timelineEffect, textListeners, timelineListeners,
          nextId, drags, isPlaying, editingMoment, clipEdits, isExporting,
          exportingId, exports, storage>>

vars == <<editorVars, lastCall>>

\* state of App and of the project store that the editor never writes
appVars == <<editingMoment, isExporting, exportingId, exports, storage>>

uiVars == <<activeTab, selectedOverlayId, expandedId, newText>>
textDragVars == <<draggingTextId, snapGuides, dragStartRef, textEffect, textListeners>>
timelineDragVars == <<draggingTimelineId, draggingTimelineEdge, timelineDragRef,
                      timelineEffect, timelineListeners>>
timeVars == <<currentTime, videoTime, isPlaying>>

\* ------------------------------------------------------ derived render data
clipStartOf(m, e) == m.startTime + e.trimStart
clipEndOf(m, e) == m.endTime + e.trimEnd
clipDurationOf(m, e) == clipEndOf(m, e) - clipStartOf(m, e)

clipStart == clipStartOf(moment, edits)
clipEnd == clipEndOf(moment, edits)
clipDuration == clipDurationOf(moment, edits)
relTime == currentTime - clipStart

SeqIds(list) == { list[i].id : i \in 1..Len(list) }
Find(list, id) == list[CHOOSE i \in 1..Len(list) : list[i].id = id]

RECURSIVE Filter(_, _)
Filter(list, id) ==
  IF list = <<>> THEN <<>>
  ELSE IF Head(list).id # id THEN <<Head(list)>> \o Filter(Tail(list), id)
       ELSE Filter(Tail(list), id)

IsVisibleBeforeEnd(t, rel, dur) ==
  LET s == Resolve(t.startSec, 0)
      e == Resolve(t.endSec, dur)
  IN rel >= s /\ rel < e

IsVisible(t, rel, dur) ==
  LET s == Resolve(t.startSec, 0)
      e == Resolve(t.endSec, dur)
  IN rel >= s /\ rel <= e

visibleOverlayIds ==
  { edits.textOverlays[i].id :
      i \in { j \in 1..Len(edits.textOverlays) :
                IsVisible(edits.textOverlays[j], relTime, clipDuration) } }

\* ------------------------------------------------------------ edit plumbing
\* updateEdits of a render whose edits prop was e: onUpdateEdits({...e, ...partial})
\* a replacement that re-appends the patched overlay at the end of the list
MapOverlaysMovedLast(list, id, patch) ==
  SelectSeq(list, LAMBDA t : t.id # id) \o
  [i \in 1..Len(SelectSeq(list, LAMBDA t : t.id = id)) |->
     [f \in DOMAIN list[1] |->
        IF f \in DOMAIN patch THEN patch[f]
        ELSE SelectSeq(list, LAMBDA t : t.id = id)[i][f]]]
\* a replacement that forgets to compare the id
MapOverlaysEvery(list, id, patch) ==
  [i \in 1..Len(list) |->
     [f \in DOMAIN list[i] |->
        IF f \in DOMAIN patch THEN patch[f] ELSE list[i][f]]]
MapOverlays(list, id, patch) ==
  [i \in 1..Len(list) |->
     IF list[i].id = id
     THEN [f \in DOMAIN list[i] |->
             IF f \in DOMAIN patch THEN patch[f] ELSE list[i][f]]
     ELSE list[i]]

updateOverlay(e, id, patch) ==
  [e EXCEPT !.textOverlays = MapOverlays(e.textOverlays, id, patch)]

\* a drag effect whose deps changed runs again and keeps what it had registered
EffectListenersNoCleanup(registered, active) ==
  registered + (IF active THEN 1 ELSE 0)

\* a drag effect whose deps changed: the cleanup of its previous run removes
\* the pair that run registered, then the body registers a pair if the
\* session is active (it returns early otherwise)
EffectListeners(registered, active) ==
  (registered - (IF registered > 0 THEN 1 ELSE 0)) + (IF active THEN 1 ELSE 0)

\* the timeline-drag effect of a render with edits prop e: registered (with
\* this closure) only when both the id and the edge are set
TimelineEffectFor(e, id, edge) ==
  IF id # NullId /\ edge # NullEdge
  THEN [edits |-> e, id |-> id, edge |-> edge,
        clipDuration |-> clipDurationOf(moment, e)]
  ELSE NoEffect

\* ------------------------------------------------------------ App plumbing
\* the clips of the project: the one of the editor runs and a second one
AppMoments == Moments \cup { [id |-> "m2", startTime |-> 300, endTime |-> 400] }
MomentIds == { m.id : m \in AppMoments }
NoMoment == <<>>
NoEdits == <<>>
NoExport == "null"

defaultEdits == [textOverlays |-> <<>>, trimStart |-> 0, trimEnd |-> 0]

\* the edits prop App hands to the editor: clipEdits[id] || defaultEdits()
EditsProp(ce, id) == IF ce[id] = NoEdits THEN defaultEdits ELSE ce[id]

\* a handleUpdateEdits that builds the new record from the update alone
SetClipEditsDropPrev(ce, em, e) ==
  IF em = NoMoment THEN ce
  ELSE [id \in DOMAIN ce |-> IF id = em.id THEN e ELSE NoEdits]

\* handleUpdateEdits(e) of a render of App whose editingMoment was em, applied
\* to the clipEdits ce of the moment the update is processed
SetClipEdits(ce, em, e) ==
  IF em = NoMoment THEN ce ELSE [ce EXCEPT ![em.id] = e]

Init ==
  /\ moment \in Moments
  /\ edits \in { [textOverlays |-> list, trimStart |-> 0, trimEnd |-> 0] :
                   list \in { <<>>, <<NullOverlay>> } }
  /\ currentTime = clipStart
  /\ videoTime = clipStart
  /\ activeTab = "subtitle"
  /\ selectedOverlayId = NullId
  /\ expandedId = NullId
  /\ newText = ""
  /\ draggingTextId = NullId
  /\ snapGuides = [x |-> FALSE, y |-> FALSE]
  /\ dragStartRef = NoRef
  /\ draggingTimelineId = NullId
  /\ draggingTimelineEdge = NullEdge
  /\ timelineDragRef = NoRef
  /\ textEffect = NoEffect
  /\ timelineEffect = NoEffect
  /\ textListeners = 0
  /\ timelineListeners = 0
  /\ nextId = Len(edits.textOverlays)
  /\ drags = 0
  /\ isPlaying = FALSE
  /\ editingMoment = moment
  /\ clipEdits = [id \in MomentIds |-> IF id = moment.id THEN edits ELSE NoEdits]
  /\ isExporting = FALSE
  /\ exportingId = NoExport
  /\ exports = [id \in MomentIds |-> "idle"]
  /\ storage = <<>>
  /\ lastCall = NoCall


\* ------------------------------------------------------------------ tabs
SetActiveTab(tab) ==
  /\ activeTab' = tab
  /\ UNCHANGED <<appVars, clipEdits, moment, edits, timeVars, selectedOverlayId, expandedId, newText,
                 textDragVars, timelineDragVars, nextId, drags>>

SetNewText(s) ==
  /\ activeTab = "subtitle"
  /\ newText' = s
  /\ UNCHANGED <<appVars, clipEdits, moment, edits, timeVars, activeTab, selectedOverlayId, expandedId,
                 textDragVars, timelineDragVars, nextId, drags>>

\* ------------------------------------------------------- text overlay CRUD
Trimmed(s) == IF s = " " THEN "" ELSE s

\* an overlay whose interval is not cut to the clip
NewOverlayUnclamped(id, text, rel, dur) ==
  [id |-> id, text |-> text, x |-> HalfPos, y |-> DefaultY,
   fontSize |-> DefaultFontSize, color |-> "#FFFFFF",
   startSec |-> Num(rel),
   endSec |-> Num(rel + DefaultSpan),
   bold |-> TRUE]

NewOverlay(id, text, rel, dur) ==
  [id |-> id, text |-> text, x |-> HalfPos, y |-> DefaultY,
   fontSize |-> DefaultFontSize, color |-> "#FFFFFF",
   startSec |-> Num(Max(0, rel)),
   endSec |-> Num(Min(dur, rel + DefaultSpan)),
   bold |-> TRUE]

addTextOverlay ==
  /\ activeTab = "subtitle"
  /\ nextId < MaxIds
  /\ IF Trimmed(newText) = ""
     THEN UNCHANGED editorVars
     ELSE LET overlay == NewOverlay(nextId + 1, Trimmed(newText), relTime, clipDuration)
          IN /\ edits' = [edits EXCEPT !.textOverlays = Append(@, overlay)]
             /\ clipEdits' = SetClipEdits(clipEdits, editingMoment, edits')
             /\ selectedOverlayId' = overlay.id
             /\ expandedId' = overlay.id
             /\ newText' = ""
             /\ nextId' = nextId + 1
             /\ UNCHANGED <<appVars, moment, timeVars, activeTab, textDragVars,
                            timelineDragVars, drags>>

removeOverlay(id) ==
  /\ activeTab = "subtitle"
  /\ edits' = [edits EXCEPT !.textOverlays = Filter(@, id)]
  /\ clipEdits' = SetClipEdits(clipEdits, editingMoment, edits')
  /\ selectedOverlayId' = IF selectedOverlayId = id THEN NullId ELSE selectedOverlayId
  /\ expandedId' = IF expandedId = id THEN NullId ELSE expandedId
  /\ UNCHANGED <<appVars, moment, timeVars, activeTab, newText, textDragVars,
                 timelineDragVars, nextId, drags>>

\* a form control of the expanded layer calling updateOverlay(t.id, patch)
FormUpdate(id, patch) ==
  /\ activeTab = "subtitle"
  /\ id \in SeqIds(edits.textOverlays)
  /\ expandedId = id
  /\ edits' = updateOverlay(edits, id, patch)
  /\ clipEdits' = SetClipEdits(clipEdits, editingMoment, edits')
  /\ UNCHANGED <<appVars, moment, timeVars, uiVars, textDragVars, timelineDragVars,
                 nextId, drags>>

ToggleBold(id) ==
  /\ id \in SeqIds(edits.textOverlays)
  /\ FormUpdate(id, [bold |-> ~Find(edits.textOverlays, id).bold])

CenterOverlay(id) == FormUpdate(id, [x |-> HalfPos, y |-> HalfPos])

\* <input type="range" min=0 max=clipDuration-0.5 step=0.1>
SetStartSec(id, v) ==
  /\ v >= 0
  /\ v <= Max(0, clipDuration - MIN_SEGMENT)
  /\ FormUpdate(id, [startSec |-> Num(v)])

\* <input type="range" min=0.5 max=clipDuration step=0.1>
SetEndSec(id, v) ==
  /\ v >= MIN_SEGMENT
  /\ v <= Max(MIN_SEGMENT, clipDuration)
  /\ FormUpdate(id, [endSec |-> Num(v)])

\* updateOverlay(id, {}) of the current render
UpdateOverlayEmpty(id) ==
  /\ edits' = updateOverlay(edits, id, << >>)
  /\ clipEdits' = SetClipEdits(clipEdits, editingMoment, edits')
  /\ UNCHANGED <<appVars, moment, timeVars, uiVars, textDragVars, timelineDragVars,
                 nextId, drags>>

\* updateOverlay(id, patch) of the current render
UpdateOverlayPatch(id, patch) ==
  /\ edits' = updateOverlay(edits, id, patch)
  /\ clipEdits' = SetClipEdits(clipEdits, editingMoment, edits')
  /\ UNCHANGED <<appVars, moment, timeVars, uiVars, textDragVars, timelineDragVars,
                 nextId, drags>>

LayerHeaderClick(id) ==
  /\ activeTab = "subtitle"
  /\ id \in SeqIds(edits.textOverlays)
  /\ selectedOverlayId' = id
  /\ expandedId' = IF expandedId = id THEN NullId ELSE id
  /\ UNCHANGED <<appVars, clipEdits, moment, edits, timeVars, activeTab, newText, textDragVars,
                 timelineDragVars, nextId, drags>>


\* ------------------------------------------------------ drag text on video
\* a preview that leaves out the glyph of every overlay outside its interval
GlyphRenderedVisibleOnly(id) ==
  /\ id \in SeqIds(edits.textOverlays)
  /\ id \in visibleOverlayIds

\* the glyph of t is rendered when t is visible or selected
GlyphRendered(id) ==
  /\ id \in SeqIds(edits.textOverlays)
  /\ (id \in visibleOverlayIds \/ selectedOverlayId = id)

\* opacity of the glyph of t: isVisible ? 1 : 0
GlyphOpacity(id) == IF id \in visibleOverlayIds THEN 1 ELSE 0

handleTextMouseDown(id, mx, my) ==
  /\ GlyphRendered(id)
  /\ draggingTextId' = id
  /\ selectedOverlayId' = id
  /\ LET overlay == Find(edits.textOverlays, id)
     IN dragStartRef' = [mouseX |-> mx, mouseY |-> my,
                         textX |-> overlay.x, textY |-> overlay.y]
  \* effect deps [draggingTextId]: re-run only when the id changed
  /\ textEffect' = IF draggingTextId = id THEN textEffect
                   ELSE [edits |-> edits, id |-> id]
  /\ textListeners' = IF draggingTextId = id THEN textListeners
                      ELSE EffectListeners(textListeners, TRUE)
  /\ drags' = drags + 1
  /\ UNCHANGED <<appVars, clipEdits, moment, edits, timeVars, activeTab, expandedId, newText,
                 snapGuides, timelineDragVars, nextId>>

Clamp01NoUpper(v) == Max(0, v)
Clamp01(v) == Min(PosScale, Max(0, v))
IsSnapLoose(v) == Abs(v - HalfPos) <= SNAP_THRESHOLD
IsSnap(v) == Abs(v - HalfPos) < SNAP_THRESHOLD
\* a snap that raises the guide flag and leaves the coordinate where it was
SnapCoordNever(v) == v

SnapCoord(v) == IF IsSnap(v) THEN HalfPos ELSE v

\* onMouseMove of the position-drag effect; (w, h) is the bounding rectangle
\* of the video wrapper at the time of the event
TextOnMouseMove(cx, cy, w, h) ==
  /\ textEffect # NoEffect
  /\ IF dragStartRef = NoRef
     THEN UNCHANGED editorVars
     ELSE LET dx == ((cx - dragStartRef.mouseX) * PosScale) \div w
              dy == ((cy - dragStartRef.mouseY) * PosScale) \div h
              newX == Clamp01(dragStartRef.textX + dx)
              newY == Clamp01(dragStartRef.textY + dy)
          IN /\ snapGuides' = [x |-> IsSnap(newX), y |-> IsSnap(newY)]
             /\ edits' = updateOverlay(textEffect.edits, textEffect.id,
                                       [x |-> SnapCoord(newX), y |-> SnapCoord(newY)])
             /\ clipEdits' = SetClipEdits(clipEdits, editingMoment, edits')
             /\ UNCHANGED <<appVars, moment, timeVars, uiVars, draggingTextId, dragStartRef,
                            textEffect, textListeners, timelineDragVars, nextId, drags>>

\* ----------------------------------------------------------- timeline drag
\* a pointer-down that also opens the detail panel, as the layer header does
handleTimelineMouseDownExpanding(id, edge, mx) ==
  /\ activeTab = "subtitle"
  /\ id \in SeqIds(edits.textOverlays)
  /\ LET overlay == Find(edits.textOverlays, id)
     IN timelineDragRef' = [startX |-> mx,
                            origStart |-> Resolve(overlay.startSec, 0),
                            origEnd |-> Resolve(overlay.endSec, clipDuration)]
  /\ draggingTimelineId' = id
  /\ draggingTimelineEdge' = edge
  /\ selectedOverlayId' = id
  /\ expandedId' = id
  \* effect deps [draggingTimelineId, draggingTimelineEdge, clipDuration]
  /\ timelineEffect' = IF draggingTimelineId = id /\ draggingTimelineEdge = edge
                       THEN timelineEffect
                       ELSE TimelineEffectFor(edits, id, edge)
  /\ timelineListeners' = IF draggingTimelineId = id /\ draggingTimelineEdge = edge
                          THEN timelineListeners
                          ELSE EffectListeners(timelineListeners, TRUE)
  /\ drags' = drags + 1
  /\ UNCHANGED <<appVars, clipEdits, moment, edits, timeVars, activeTab, newText,
                 textDragVars, nextId>>

handleTimelineMouseDown(id, edge, mx) ==
  /\ activeTab = "subtitle"
  /\ id \in SeqIds(edits.textOverlays)
  /\ LET overlay == Find(edits.textOverlays, id)
     IN timelineDragRef' = [startX |-> mx,
                            origStart |-> Resolve(overlay.startSec, 0),
                            origEnd |-> Resolve(overlay.endSec, clipDuration)]
  /\ draggingTimelineId' = id
  /\ draggingTimelineEdge' = edge
  /\ selectedOverlayId' = id
  \* effect deps [draggingTimelineId, draggingTimelineEdge, clipDuration]
  /\ timelineEffect' = IF draggingTimelineId = id /\ draggingTimelineEdge = edge
                       THEN timelineEffect
                       ELSE TimelineEffectFor(edits, id, edge)
  /\ timelineListeners' = IF draggingTimelineId = id /\ draggingTimelineEdge = edge
                          THEN timelineListeners
                          ELSE EffectListeners(timelineListeners, TRUE)
  /\ drags' = drags + 1
  /\ UNCHANGED <<appVars, clipEdits, moment, edits, timeVars, activeTab, expandedId, newText,
                 textDragVars, nextId>>

ResizeLeftNoFloor(origStart, origEnd, dSec) == Max(0, origStart + dSec)
ResizeLeft(origStart, origEnd, dSec) ==
  Min(Max(0, origStart + dSec), origEnd - MIN_SEGMENT)

ResizeRight(origStart, origEnd, dSec, dur) ==
  Max(Min(dur, origEnd + dSec), origStart + MIN_SEGMENT)

MoveStart(origStart, origEnd, dSec, dur) ==
  Min(Max(0, origStart + dSec), dur - (origEnd - origStart))

\* a left resize that also carries the right edge along
NewIntervalShiftBoth(edge, origStart, origEnd, dSec, dur) ==
  IF edge = "right"
  THEN [start |-> origStart, end |-> ResizeRight(origStart, origEnd, dSec, dur)]
  ELSE IF edge = "left"
  THEN [start |-> ResizeLeft(origStart, origEnd, dSec),
        end |-> ResizeLeft(origStart, origEnd, dSec) + (origEnd - origStart)]
  ELSE [start |-> MoveStart(origStart, origEnd, dSec, dur),
        end |-> MoveStart(origStart, origEnd, dSec, dur) + (origEnd - origStart)]

\* a move that adds the delta to the bounds the overlay has now
NewIntervalFromCurrent(edge, origStart, origEnd, dSec, dur) ==
  LET t == Find(edits.textOverlays, timelineEffect.id)
      curStart == IF timelineEffect.id \in SeqIds(edits.textOverlays)
                  THEN Resolve(t.startSec, 0) ELSE origStart
      curEnd == IF timelineEffect.id \in SeqIds(edits.textOverlays)
                THEN Resolve(t.endSec, dur) ELSE origEnd
  IN IF edge = "left"
     THEN [start |-> ResizeLeft(curStart, curEnd, dSec), end |-> curEnd]
     ELSE IF edge = "right"
     THEN [start |-> curStart, end |-> ResizeRight(curStart, curEnd, dSec, dur)]
     ELSE [start |-> MoveStart(curStart, curEnd, dSec, dur),
           end |-> MoveStart(curStart, curEnd, dSec, dur) + (curEnd - curStart)]

\* newStart / newEnd of one timeline move
NewInterval(edge, origStart, origEnd, dSec, dur) ==
  IF edge = "left"
  THEN [start |-> ResizeLeft(origStart, origEnd, dSec), end |-> origEnd]
  ELSE IF edge = "right"
  THEN [start |-> origStart, end |-> ResizeRight(origStart, origEnd, dSec, dur)]
  ELSE [start |-> MoveStart(origStart, origEnd, dSec, dur),
        end |-> MoveStart(origStart, origEnd, dSec, dur) + (origEnd - origStart)]

\* the patch of one timeline move: both bounds, as numbers
TimelinePatchMovedEdge(edge, new) ==
  IF edge = "left" THEN [startSec |-> Num(new.start)]
  ELSE IF edge = "right" THEN [endSec |-> Num(new.end)]
  ELSE [startSec |-> Num(new.start), endSec |-> Num(new.end)]
TimelinePatch(edge, new) == [startSec |-> Num(new.start), endSec |-> Num(new.end)]

\* dSec = (clientX - startX) / (rect.width / clipDuration)
DeltaSec(cx, startX, w, dur) == ((cx - startX) * dur) \div w

\* onMouseMove of the timeline-drag effect; w is the width of the track
TimelineOnMouseMove(cx, w) ==
  /\ timelineEffect # NoEffect
  /\ IF timelineDragRef = NoRef \/ activeTab # "subtitle"
     THEN UNCHANGED editorVars
     ELSE LET dur == timelineEffect.clipDuration
              dSec == DeltaSec(cx, timelineDragRef.startX, w, dur)
              new == NewInterval(timelineEffect.edge, timelineDragRef.origStart,
                                 timelineDragRef.origEnd, dSec, dur)
          IN /\ edits' = updateOverlay(timelineEffect.edits, timelineEffect.id,
                                       TimelinePatch(timelineEffect.edge, new))
             /\ clipEdits' = SetClipEdits(clipEdits, editingMoment, edits')
             /\ UNCHANGED <<appVars, moment, timeVars, uiVars, textDragVars, timelineDragVars,
                            nextId, drags>>

\* the window "mouseup" event: the onMouseUp listener of every registered
\* drag effect runs, and the effect whose deps changed is cleaned up
OnMouseUp ==
  /\ IF textEffect # NoEffect
     THEN /\ draggingTextId' = NullId
          /\ snapGuides' = [x |-> FALSE, y |-> FALSE]
          /\ dragStartRef' = NoRef
          /\ textEffect' = NoEffect
          /\ textListeners' = EffectListeners(textListeners, FALSE)
     ELSE UNCHANGED textDragVars
  /\ IF timelineEffect # NoEffect
     THEN /\ draggingTimelineId' = NullId
          /\ draggingTimelineEdge' = NullEdge
          /\ timelineEffect' = NoEffect
          /\ timelineListeners' = EffectListeners(timelineListeners, FALSE)
          /\ UNCHANGED timelineDragRef
     ELSE UNCHANGED timelineDragVars

\* a release that is followed by no click (the pointer has left the element
\* it was pressed on, or no element with a click handler is under it)
WindowMouseUp ==
  /\ textEffect # NoEffect \/ timelineEffect # NoEffect
  /\ OnMouseUp
  /\ UNCHANGED <<appVars, clipEdits, moment, edits, timeVars, uiVars, nextId, drags>>

\* ------------------------------------------------------------------- trim
\* max of the trim sliders: floor((endTime - startTime) * 0.8) seconds
TrimMax(m) == Max(0, ((m.endTime - m.startTime) * 8) \div (10 * TimeScale)) * TimeScale

\* updateEdits(partial) of the current render for trimStart / trimEnd, and
\* the effects whose deps (clipStart, clipEnd, clipDuration) changed
SetTrim(newEdits) ==
  /\ activeTab = "trim"
  /\ edits' = newEdits
  /\ clipEdits' = SetClipEdits(clipEdits, editingMoment, edits')
  /\ IF clipStartOf(moment, newEdits) # clipStart \/ clipEndOf(moment, newEdits) # clipEnd
     THEN /\ videoTime' = clipStartOf(moment, newEdits)
          /\ currentTime' = clipStartOf(moment, newEdits)
          /\ UNCHANGED isPlaying
     ELSE UNCHANGED timeVars
  /\ timelineEffect' =
       IF timelineEffect # NoEffect /\ clipDurationOf(moment, newEdits) # clipDuration
       THEN TimelineEffectFor(newEdits, draggingTimelineId, draggingTimelineEdge)
       ELSE timelineEffect
  /\ timelineListeners' =
       IF timelineEffect # NoEffect /\ clipDurationOf(moment, newEdits) # clipDuration
       THEN EffectListeners(timelineListeners, TRUE)
       ELSE timelineListeners
  /\ UNCHANGED <<appVars, moment, uiVars, textDragVars, draggingTimelineId,
                 draggingTimelineEdge, timelineDragRef, nextId, drags>>

SetTrimStart(v) ==
  /\ v >= 0 /\ v <= TrimMax(moment)
  /\ SetTrim([edits EXCEPT !.trimStart = v])

SetTrimEnd(v) ==
  /\ v <= 0 /\ v >= 0 - TrimMax(moment)
  /\ SetTrim([edits EXCEPT !.trimEnd = v])

\* ------------------------------------------------------------ video time
\* t of a click at p pixels from the left of a track w pixels wide
ClickTime(p, w) == clipStart + (p * clipDuration) \div w

\* click on the timeline track at p pixels from its left edge; w is its width
handleTimelineClick(p, w) ==
  /\ activeTab = "subtitle"
  /\ videoTime' = ClickTime(p, w)
  /\ UNCHANGED <<appVars, clipEdits, moment, edits, currentTime, isPlaying, uiVars, textDragVars,
                 timelineDragVars, nextId, drags>>

seek(delta) ==
  /\ videoTime' = Min(Max(videoTime + delta, clipStart), clipEnd)
  /\ UNCHANGED <<appVars, clipEdits, moment, edits, currentTime, isPlaying, uiVars, textDragVars,
                 timelineDragVars, nextId, drags>>

\* the "timeupdate" listener of the video
onTime ==
  /\ currentTime' = videoTime
  /\ videoTime' = IF videoTime >= clipEnd THEN clipStart ELSE videoTime
  /\ isPlaying' = IF videoTime >= clipEnd THEN FALSE ELSE isPlaying
  /\ UNCHANGED <<appVars, clipEdits, moment, edits, uiVars, textDragVars, timelineDragVars,
                 nextId, drags>>


togglePlay ==
  /\ IF isPlaying
     THEN /\ isPlaying' = FALSE
          /\ UNCHANGED videoTime
     ELSE /\ videoTime' = IF videoTime >= clipEnd THEN clipStart ELSE videoTime
          /\ isPlaying' = TRUE
  /\ UNCHANGED <<appVars, clipEdits, moment, edits, currentTime, uiVars, textDragVars,
                 timelineDragVars, nextId, drags>>

\* the video element playing: its time advances by dt, up to the end of the
\* source video, VideoTail after the end of the moment
VideoPlays(dt) ==
  /\ isPlaying
  /\ videoTime + dt <= moment.endTime + VideoTail
  /\ videoTime' = videoTime + dt
  /\ UNCHANGED <<appVars, clipEdits, moment, edits, currentTime, isPlaying, uiVars,
                 textDragVars, timelineDragVars, nextId, drags>>

\* ------------------------------------------------- releases on the timeline
\* the pixel of a track w pixels wide at which the bar of t starts (its left
\* resize handle) or ends (its right resize handle)
HandleX(t, edge, w) ==
  LET s == Resolve(t.startSec, 0)
      e == Resolve(t.endSec, clipDuration)
  IN ((IF edge = "left" THEN s ELSE e) * w) \div clipDuration

\* the release of a press on a resize handle, the pointer still on the handle:
\* the mouseup listeners run, then the click is dispatched on the handle,
\* which has no click handler, and bubbles to the onClick of the track
ReleaseOnHandle(w) ==
  /\ activeTab = "subtitle"
  /\ timelineEffect # NoEffect
  /\ draggingTimelineEdge \in {"left", "right"}
  /\ draggingTimelineId \in SeqIds(edits.textOverlays)
  /\ clipDuration > 0
  /\ OnMouseUp
  /\ videoTime' = ClickTime(HandleX(Find(edits.textOverlays, draggingTimelineId),
                                    draggingTimelineEdge, w), w)
  /\ UNCHANGED <<appVars, clipEdits, moment, edits, currentTime, isPlaying, uiVars,
                 nextId, drags>>

\* the release of a press on a bar, the pointer still on the bar: the mouseup
\* listeners run, then the onClick of the bar, which stops the propagation
ReleaseOnBar ==
  /\ activeTab = "subtitle"
  /\ timelineEffect # NoEffect
  /\ draggingTimelineEdge = "move"
  /\ draggingTimelineId \in SeqIds(edits.textOverlays)
  /\ OnMouseUp
  /\ selectedOverlayId' = draggingTimelineId
  /\ expandedId' = draggingTimelineId
  /\ UNCHANGED <<appVars, clipEdits, moment, edits, timeVars, activeTab, newText,
                 nextId, drags>>

\* -------------------------------------------------------------------- App
\* the state the editor keeps for itself
editorState == <<activeTab, selectedOverlayId, expandedId, newText, textDragVars,
                 timelineDragVars, nextId, drags>>

\* the edit button of a clip card; the editor is a modal over the page, so the
\* button is reached only while the editor is closed.  The editor is mounted
\* with the stored edits of the clip and its time effect runs.
handleEditMoment(m) ==
  /\ editingMoment = NoMoment
  /\ clipEdits' = IF clipEdits[m.id] = NoEdits
                  THEN [clipEdits EXCEPT ![m.id] = defaultEdits]
                  ELSE clipEdits
  /\ editingMoment' = m
  /\ moment' = m
  /\ edits' = EditsProp(clipEdits', m.id)
  /\ currentTime' = clipStartOf(m, edits')
  /\ videoTime' = clipStartOf(m, edits')
  /\ isPlaying' = FALSE
  /\ activeTab' = "subtitle"
  /\ selectedOverlayId' = NullId
  /\ expandedId' = NullId
  /\ newText' = ""
  /\ draggingTextId' = NullId
  /\ snapGuides' = [x |-> FALSE, y |-> FALSE]
  /\ dragStartRef' = NoRef
  /\ draggingTimelineId' = NullId
  /\ draggingTimelineEdge' = NullEdge
  /\ timelineDragRef' = NoRef
  /\ textEffect' = NoEffect
  /\ timelineEffect' = NoEffect
  /\ textListeners' = 0
  /\ timelineListeners' = 0
  /\ UNCHANGED <<nextId, drags, isExporting, exportingId, exports, storage>>

\* onClose of the editor: setEditingMoment(null); the editor is unmounted and
\* the cleanups of its effects remove their listeners
onClose ==
  /\ editingMoment # NoMoment
  /\ editingMoment' = NoMoment
  /\ textEffect' = NoEffect
  /\ timelineEffect' = NoEffect
  /\ textListeners' = 0
  /\ timelineListeners' = 0
  /\ UNCHANGED <<clipEdits, moment, edits, timeVars, uiVars, draggingTextId,
                 snapGuides, dragStartRef, draggingTimelineId, draggingTimelineEdge,
                 timelineDragRef, nextId, drags, isExporting, exportingId, exports,
                 storage>>

\* handleUpdateEdits(e), and the render that hands the editor its edits prop
handleUpdateEdits(e) ==
  /\ clipEdits' = SetClipEdits(clipEdits, editingMoment, e)
  /\ edits' = IF editingMoment = NoMoment THEN edits
              ELSE EditsProp(clipEdits', editingMoment.id)
  /\ UNCHANGED <<appVars, moment, timeVars, editorState>>

\* handleExportClip(m, edits) up to its first await (getTempVideoBlob); the
\* export button of a clip is disabled while exportingId is the id of the clip
handleExportClip(m) ==
  /\ exportingId # m.id
  /\ exports[m.id] = "idle"
  /\ exports' = [exports EXCEPT ![m.id] = "blob"]
  /\ UNCHANGED <<editingMoment, isExporting, exportingId, storage, clipEdits, moment,
                 edits, timeVars, editorState>>

\* getTempVideoBlob has resolved: without a blob the call ends with an error,
\* with one it sets the flags and goes on to the upload
BlobLoaded(id, found) ==
  /\ exports[id] = "blob"
  /\ IF found
     THEN /\ isExporting' = TRUE
          /\ exportingId' = id
          /\ exports' = [exports EXCEPT ![id] = "upload"]
     ELSE /\ exports' = [exports EXCEPT ![id] = "idle"]
          /\ UNCHANGED <<isExporting, exportingId>>
  /\ UNCHANGED <<editingMoment, storage, clipEdits, moment, edits, timeVars,
                 editorState>>

\* uploadAndStoreExportedClip has settled, by a result or by an error: the
\* finally block runs
ExportSettled(id) ==
  /\ exports[id] = "upload"
  /\ isExporting' = FALSE
  /\ exportingId' = NoExport
  /\ exports' = [exports EXCEPT ![id] = "idle"]
  /\ UNCHANGED <<editingMoment, storage, clipEdits, moment, edits, timeVars,
                 editorState>>

\* ----------------------------------------------------------- project store
\* JSON.stringify leaves out a property whose value is undefined; JSON.parse
\* gives back the record that was written
Stringify(p) ==
  IF p.localVideoUrl = Undefined
  THEN [f \in DOMAIN p \ {"localVideoUrl"} |-> p[f]]
  ELSE p
StringifyAll(list) == [i \in 1..Len(list) |-> Stringify(list[i])]

\* { ...p, localVideoUrl: undefined }
WithoutUrl(p) ==
  [f \in DOMAIN p \cup {"localVideoUrl"} |->
     IF f = "localVideoUrl" THEN Undefined ELSE p[f]]

loadProjects == [i \in 1..Len(storage) |-> WithoutUrl(storage[i])]

\* projects.findIndex((p) => p.id === id), counted from 1; 0 for none
FindIndex(list, id) ==
  IF \E i \in 1..Len(list) : list[i].id = id
  THEN CHOOSE i \in 1..Len(list) :
         /\ list[i].id = id
         /\ \A j \in 1..(i - 1) : list[j].id # id
  ELSE 0

\* list.slice(0, n)
SliceAll(list, n) == list
Slice(list, n) == SubSeq(list, 1, Min(Len(list), n))

saveProject(project) ==
  /\ LET projects == loadProjects
         idx == FindIndex(projects, project.id)
         toSave == WithoutUrl(project)
         updated == IF idx >= 1 THEN [projects EXCEPT ![idx] = toSave]
                    ELSE <<toSave>> \o projects
     IN storage' = StringifyAll(Slice(updated, STORE_LIMIT))
  /\ UNCHANGED <<editingMoment, isExporting, exportingId, exports, clipEdits, moment,
                 edits, timeVars, editorState>>

deleteProject(id) ==
  /\ storage' = StringifyAll(Filter(loadProjects, id))
  /\ UNCHANGED <<editingMoment, isExporting, exportingId, exports, clipEdits, moment,
                 edits, timeVars, editorState>>

\* loadProjects().find((p) => p.id === id) || null
getProject(id) ==
  IF FindIndex(loadProjects, id) = 0 THEN Null
  ELSE loadProjects[FindIndex(loadProjects, id)]

\* ---------------------------------------------------------- specifications
\* A click needs a press and a release of the primary button, and the release
\* ends every drag session first (WindowMouseUp): the handlers that only a
\* mouse click reaches run with no drag session active.
NoDrag == textEffect = NoEffect /\ timelineEffect = NoEffect

\* the step is none of the handlers whose call the history records
Untraced == lastCall' = NoCall

\* The editor with the gestures of the position-drag engine and the overlay
\* list operations; updateOverlay and removeOverlay are also called directly,
\* with any id, as the operations the component exposes.
NextPos ==
  \/ \E s \in Texts : SetNewText(s) /\ Untraced
  \/ addTextOverlay /\ Untraced
  \/ \E id \in Ids : CenterOverlay(id) /\ Untraced
  \/ \E id \in Ids : NoDrag /\ LayerHeaderClick(id) /\ Untraced
  \/ \E id \in Ids, mx \in PosDownXs, my \in PosDownYs :
       drags < MaxDrags /\ handleTextMouseDown(id, mx, my) /\ Untraced
  \/ \E cx \in PosMoveXs, cy \in PosMoveYs, r \in PosRects :
       /\ TextOnMouseMove(cx, cy, r[1], r[2])
       /\ lastCall' = [op |-> "TextOnMouseMove", cx |-> cx, cy |-> cy,
                       w |-> r[1], h |-> r[2]]
  \/ WindowMouseUp /\ Untraced
  \/ \E id \in Ids :
       /\ removeOverlay(id)
       /\ lastCall' = [op |-> "removeOverlay", id |-> id, list |-> edits.textOverlays,
                       selected |-> selectedOverlayId]
  \/ \E id \in Ids :
       /\ UpdateOverlayEmpty(id)
       /\ lastCall' = [op |-> "updateOverlay", id |-> id, list |-> edits.textOverlays]

SpecPos == Init /\ [][NextPos]_vars

\* The editor with the gestures of the timeline engine, the Start/End
\* sliders, the trim sliders and the playhead.
NextTimeline ==
  \/ \E tab \in Tabs : SetActiveTab(tab) /\ Untraced
  \/ \E s \in Texts : SetNewText(s) /\ Untraced
  \/ nextId < MaxTimelineIds /\ addTextOverlay /\ Untraced
  \/ \E id \in Ids : id \in SeqIds(edits.textOverlays) /\ removeOverlay(id) /\ Untraced
  \/ \E id \in Ids, v \in FormStarts : SetStartSec(id, v) /\ Untraced
  \/ \E id \in Ids, v \in FormEnds : SetEndSec(id, v) /\ Untraced
  \/ \E id \in Ids : NoDrag /\ LayerHeaderClick(id) /\ Untraced
  \/ \E id \in Ids, edge \in Edges, mx \in TimelineDownXs :
       /\ drags < MaxDrags
       /\ handleTimelineMouseDown(id, edge, mx)
       /\ lastCall' = [op |-> "handleTimelineMouseDown", id |-> id, edge |-> edge]
  \/ \E cx \in TimelineMoveXs, w \in TimelineWidths :
       /\ TimelineOnMouseMove(cx, w)
       /\ lastCall' = [op |-> "TimelineOnMouseMove", cx |-> cx, w |-> w]
  \/ WindowMouseUp /\ Untraced
  \/ \E v \in TrimStarts : SetTrimStart(v) /\ Untraced
  \/ \E v \in TrimEnds : SetTrimEnd(v) /\ Untraced
  \/ \E p \in ClickXs, w \in TimelineWidths :
       NoDrag /\ handleTimelineClick(p, w) /\ Untraced
  \/ onTime /\ Untraced

SpecTimeline == Init /\ [][NextTimeline]_vars

\* The editor with the player controls, the playing video, the trim sliders
\* and the timeline track: clicks on its background, and presses on a bar or
\* a resize handle with the release that follows.
NextPlay ==
  \/ \E tab \in Tabs : SetActiveTab(tab) /\ Untraced
  \/ \E v \in TrimStarts : SetTrimStart(v) /\ Untraced
  \/ \E v \in TrimEnds : SetTrimEnd(v) /\ Untraced
  \/ \E id \in Ids, edge \in Edges, mx \in TimelineDownXs :
       drags < MaxDrags /\ handleTimelineMouseDown(id, edge, mx) /\ Untraced
  \/ \E cx \in PlayMoveXs, w \in TimelineWidths :
       TimelineOnMouseMove(cx, w) /\ Untraced
  \/ WindowMouseUp /\ Untraced
  \/ \E w \in TimelineWidths :
       /\ ReleaseOnHandle(w)
       /\ lastCall' = [op |-> "ReleaseOnHandle", time |-> videoTime]
  \/ /\ ReleaseOnBar
     /\ lastCall' = [op |-> "ReleaseOnBar", time |-> videoTime]
  \/ \E p \in TrackClickXs, w \in TimelineWidths :
       /\ NoDrag
       /\ handleTimelineClick(p, w)
       /\ lastCall' = [op |-> "handleTimelineClick", p |-> p, w |-> w]
  \/ \E delta \in SeekDeltas :
       /\ seek(delta)
       /\ lastCall' = [op |-> "seek", delta |-> delta, time |-> videoTime]
  \/ /\ togglePlay
     /\ lastCall' = [op |-> "togglePlay", wasPlaying |-> isPlaying, time |-> videoTime]
  \/ \E dt \in PlaySteps : VideoPlays(dt) /\ Untraced
  \/ /\ onTime
     /\ lastCall' = [op |-> "onTime", reported |-> videoTime]

SpecPlay == Init /\ [][NextPlay]_vars

\* The editor with the text field and its Enter key, on every clip window
\* the trim sliders give and with the playhead where clicks on the track put it.
NextAdd ==
  \/ \E tab \in Tabs : SetActiveTab(tab) /\ Untraced
  \/ \E v \in TrimStarts : SetTrimStart(v) /\ Untraced
  \/ \E v \in TrimEnds : SetTrimEnd(v) /\ Untraced
  \/ \E s \in LayerTexts : SetNewText(s) /\ Untraced
  \/ /\ addTextOverlay
     /\ lastCall' = [op |-> "addTextOverlay", list |-> edits.textOverlays,
                     text |-> newText, time |-> currentTime,
                     selected |-> selectedOverlayId, expanded |-> expandedId]
  \/ \E id \in Ids : LayerHeaderClick(id) /\ Untraced
  \/ \E p \in LayerClickXs, w \in TimelineWidths :
       handleTimelineClick(p, w) /\ Untraced
  \/ onTime /\ Untraced

SpecAdd == Init /\ [][NextAdd]_vars

\* The editor with the text field, the layer list, the Start/End sliders, the
\* glyphs on the preview and a playhead that clicks on the track move.
NextLayer ==
  \/ \E s \in LayerTexts : SetNewText(s) /\ Untraced
  \/ addTextOverlay /\ Untraced
  \/ \E id \in Ids : NoDrag /\ LayerHeaderClick(id) /\ Untraced
  \/ \E id \in Ids, v \in FormStarts :
       /\ SetStartSec(id, v)
       /\ lastCall' = [op |-> "SetStartSec", id |-> id, v |-> v]
  \/ \E id \in Ids, v \in FormEnds :
       /\ SetEndSec(id, v)
       /\ lastCall' = [op |-> "SetEndSec", id |-> id, v |-> v]
  \/ \E id \in Ids, mx \in ListDownXs, my \in PosDownYs :
       /\ drags < MaxDrags
       /\ handleTextMouseDown(id, mx, my)
       /\ lastCall' = [op |-> "handleTextMouseDown", id |-> id,
                       list |-> edits.textOverlays, time |-> currentTime,
                       selected |-> selectedOverlayId]
  \/ WindowMouseUp /\ Untraced
  \/ \E p \in LayerClickXs, w \in TimelineWidths :
       NoDrag /\ handleTimelineClick(p, w) /\ Untraced
  \/ onTime /\ Untraced

SpecLayer == Init /\ [][NextLayer]_vars

\* App with two clips: the editor is opened on a clip and closed, it sends
\* updates while it is open (Enter in its text field, the delete button of a
\* layer), handleUpdateEdits is also called as App exposes it, and exports
\* are started and settle.
NextApp ==
  \/ \E m \in AppMoments :
       /\ handleEditMoment(m)
       /\ lastCall' = [op |-> "handleEditMoment", id |-> m.id, before |-> clipEdits]
  \/ /\ onClose
     /\ lastCall' = [op |-> "onClose", before |-> clipEdits]
  \/ \E s \in Texts : editingMoment # NoMoment /\ SetNewText(s) /\ Untraced
  \/ /\ editingMoment # NoMoment
     /\ addTextOverlay
     /\ lastCall' = [op |-> "editorUpdate", editing |-> editingMoment,
                     before |-> clipEdits]
  \/ \E id \in Ids :
       /\ editingMoment # NoMoment
       /\ id \in SeqIds(edits.textOverlays)
       /\ removeOverlay(id)
       /\ lastCall' = [op |-> "editorUpdate", editing |-> editingMoment,
                       before |-> clipEdits]
  \/ \E e \in AppEdits :
       /\ handleUpdateEdits(e)
       /\ lastCall' = [op |-> "handleUpdateEdits", e |-> e, editing |-> editingMoment,
                       before |-> clipEdits]
  \/ \E m \in AppMoments : handleExportClip(m) /\ Untraced
  \/ \E id \in MomentIds, found \in BOOLEAN : BlobLoaded(id, found) /\ Untraced
  \/ \E id \in MomentIds : ExportSettled(id) /\ Untraced

SpecApp == Init /\ [][NextApp]_vars

\* The project store: projects are saved with ids in the order they are
\* created, with or without the object URL of their video; the first one is
\* saved again, changed, and some are deleted, also when not stored.
StoredIds == { storage[i].id : i \in 1..Len(storage) }
NewProjectId == IF storage = <<>> THEN 1
                ELSE 1 + CHOOSE n \in StoredIds : \A k \in StoredIds : k <= n

NextStore ==
  \/ \E id \in ResaveIds \cup {NewProjectId}, name \in ProjectNames,
        url \in ProjectUrls :
       /\ id <= MaxProjects
       /\ id \notin ResaveIds => name = "a"
       /\ saveProject([id |-> id, name |-> name, localVideoUrl |-> url])
       /\ lastCall' = [op |-> "saveProject", before |-> storage,
                       project |-> [id |-> id, name |-> name, localVideoUrl |-> url]]
  \/ \E id \in DeleteIds :
       /\ deleteProject(id)
       /\ lastCall' = [op |-> "deleteProject", id |-> id, before |-> storage]

SpecStore == Init /\ [][NextStore]_vars

\* The editor with both drag engines on one window: pointer-downs on glyphs
\* and on timeline bars in any order, moves, the release, and the list
\* operations that the keyboard reaches while a button is held.  Each
\* listener of a pointer-move is a step of its own: with both effects
\* registered, one event on window runs the two steps one after the other.
NextDrag ==
  \/ \E s \in Texts : SetNewText(s) /\ Untraced
  \/ addTextOverlay /\ Untraced
  \/ \E id \in Ids : id \in SeqIds(edits.textOverlays) /\ removeOverlay(id) /\ Untraced
  \/ \E id \in Ids, mx \in PosDownXs, my \in PosDownYs :
       /\ drags < MaxDowns
       /\ handleTextMouseDown(id, mx, my)
       /\ lastCall' = [op |-> "handleTextMouseDown", id |-> id,
                       selected |-> selectedOverlayId, expanded |-> expandedId,
                       dragging |-> draggingTextId]
  \/ \E cx \in DragPosMoveXs, cy \in DragPosMoveYs, r \in DragPosRects :
       /\ TextOnMouseMove(cx, cy, r[1], r[2])
       /\ lastCall' = [op |-> "TextOnMouseMove", cx |-> cx, cy |-> cy,
                       w |-> r[1], h |-> r[2], list |-> edits.textOverlays]
  \/ \E id \in Ids, edge \in Edges, mx \in TimelineDownXs :
       /\ drags < MaxDowns
       /\ handleTimelineMouseDown(id, edge, mx)
       /\ lastCall' = [op |-> "handleTimelineMouseDown", id |-> id, edge |-> edge,
                       selected |-> selectedOverlayId, expanded |-> expandedId,
                       dragging |-> draggingTimelineId]
  \/ \E cx \in DragTimelineMoveXs, w \in TimelineWidths :
       /\ TimelineOnMouseMove(cx, w)
       /\ lastCall' = [op |-> "TimelineOnMouseMove", cx |-> cx, w |-> w,
                       list |-> edits.textOverlays]
  \/ /\ WindowMouseUp
     /\ lastCall' = [op |-> "WindowMouseUp", text |-> draggingTextId # NullId,
                     timeline |-> draggingTimelineId # NullId]

SpecDrag == Init /\ [][NextDrag]_vars

\* The overlay list and its operations: updateOverlay is called with any id
\* and the patches of the form controls, while a position drag may hold a
\* snapshot of an earlier list.
NextList ==
  \/ \E s \in Texts : SetNewText(s) /\ Untraced
  \/ addTextOverlay /\ Untraced
  \/ \E id \in Ids : id \in SeqIds(edits.textOverlays) /\ removeOverlay(id) /\ Untraced
  \/ \E id \in Ids, mx \in ListDownXs, my \in PosDownYs :
       drags < MaxDrags /\ handleTextMouseDown(id, mx, my) /\ Untraced
  \/ WindowMouseUp /\ Untraced
  \/ \E id \in Ids, patch \in Patches :
       /\ UpdateOverlayPatch(id, patch)
       /\ lastCall' = [op |-> "updateOverlayPatch", id |-> id, patch |-> patch,
                       list |-> edits.textOverlays, snapshot |-> textEffect]

SpecList == Init /\ [][NextList]_vars

\* ------------------------------------------------------------------ claims
Overlays == { edits.textOverlays[i] : i \in 1..Len(edits.textOverlays) }
Present(id) == id \in SeqIds(edits.textOverlays)
Dragged == Find(edits.textOverlays, draggingTextId)
AfterTextMove == lastCall.op = "TextOnMouseMove" /\ dragStartRef # NoRef

\* C1: after any sequence of position-drag moves (any pointer position, any
\* size of the preview surface, any anchor), the x and the y stored for an
\* overlay, the dragged one included, are within [0,1].
C1_PositionInUnitSquare ==
  \A t \in Overlays : t.x >= 0 /\ t.x <= PosScale /\ t.y >= 0 /\ t.y <= PosScale

\* a position-drag move has put its overlay on the right and the lower edge
C1_Witness ==
  /\ AfterTextMove
  /\ Present(draggingTextId)
  /\ Dragged.x = PosScale
  /\ Dragged.y = PosScale
  /\ dragStartRef.textX # PosScale

\* C2: in a position-drag move the stored x is exactly 0.5 when the unclamped
\* candidate (anchor x + pointer delta / surface width) is strictly within 0.03
\* of 0.5 and the clamped candidate otherwise; y follows the same rule on its
\* own.
C2_SnapRule ==
  AfterTextMove =>
    LET candX == dragStartRef.textX
                   + ((lastCall.cx - dragStartRef.mouseX) * PosScale) \div lastCall.w
        candY == dragStartRef.textY
                   + ((lastCall.cy - dragStartRef.mouseY) * PosScale) \div lastCall.h
        wantX == IF candX > 47 /\ candX < 53 THEN 50
                 ELSE IF candX < 0 THEN 0 ELSE IF candX > 100 THEN 100 ELSE candX
        wantY == IF candY > 47 /\ candY < 53 THEN 50
                 ELSE IF candY < 0 THEN 0 ELSE IF candY > 100 THEN 100 ELSE candY
    IN /\ Present(draggingTextId)
       /\ Dragged.x = wantX
       /\ Dragged.y = wantY

\* a move whose candidate x was 0.48 has snapped x while y is left unsnapped
C2_Witness ==
  /\ AfterTextMove
  /\ Present(draggingTextId)
  /\ dragStartRef.textX
       + ((lastCall.cx - dragStartRef.mouseX) * PosScale) \div lastCall.w = 48
  /\ snapGuides.x /\ ~snapGuides.y
  /\ Dragged.x = HalfPos
  /\ Dragged.y # HalfPos


TimelineDragged == Find(edits.textOverlays, timelineEffect.id)
AfterTimelineMove ==
  /\ lastCall.op = "TimelineOnMouseMove"
  /\ timelineDragRef # NoRef
  /\ activeTab = "subtitle"
  /\ Present(timelineEffect.id)
BothSet(t) == t.startSec # Null /\ t.endSec # Null
Span(t) == t.endSec[1] - t.startSec[1]

\* C3: after every resize-left or resize-right move of a timeline drag the
\* dragged overlay satisfies endSec - startSec >= MIN_SEGMENT (0.5 s), for
\* any pointer position and any interval the overlay had at drag start.
C3_ResizeKeepsMinSegment ==
  (AfterTimelineMove /\ timelineEffect.edge \in {"left", "right"}) =>
    /\ BothSet(TimelineDragged)
    /\ Span(TimelineDragged) >= 5

\* a resize-left that ran into the floor: the segment was longer at drag start
\* and is exactly MIN_SEGMENT long after the move
C3_Witness ==
  /\ AfterTimelineMove
  /\ timelineEffect.edge = "left"
  /\ BothSet(TimelineDragged)
  /\ Span(TimelineDragged) = 5
  /\ timelineDragRef.origEnd - timelineDragRef.origStart > 5

\* C4: the anchor of a timeline drag holds the overlay's bounds as resolved at
\* pointer-down (null startSec as 0, null endSec as clipDuration); a
\* resize-left move leaves endSec at that anchor value and a resize-right
\* move leaves startSec at it: only the dragged edge changes.
C4_OtherEdgeKept ==
  /\ (lastCall.op = "handleTimelineMouseDown" /\ Present(lastCall.id)) =>
       LET t == Find(edits.textOverlays, lastCall.id)
       IN /\ timelineDragRef.origStart = (IF t.startSec = Null THEN 0 ELSE t.startSec[1])
          /\ timelineDragRef.origEnd =
               (IF t.endSec = Null THEN clipDuration ELSE t.endSec[1])
  /\ (AfterTimelineMove /\ timelineEffect.edge = "left") =>
       TimelineDragged.endSec = <<timelineDragRef.origEnd>>
  /\ (AfterTimelineMove /\ timelineEffect.edge = "right") =>
       TimelineDragged.startSec = <<timelineDragRef.origStart>>

\* a resize-left move has changed startSec and left endSec at the anchor
C4_Witness ==
  /\ AfterTimelineMove
  /\ timelineEffect.edge = "left"
  /\ TimelineDragged.endSec = <<timelineDragRef.origEnd>>
  /\ TimelineDragged.startSec # <<timelineDragRef.origStart>>

\* C5: after every move-gesture event of a timeline drag, the overlay's
\* duration equals its duration at drag start and 0 <= startSec and
\* endSec <= clipDuration hold.
C5_MoveKeepsDurationInClip ==
  (AfterTimelineMove /\ timelineEffect.edge = "move") =>
    /\ BothSet(TimelineDragged)
    /\ Span(TimelineDragged) = timelineDragRef.origEnd - timelineDragRef.origStart
    /\ TimelineDragged.startSec[1] >= 0
    /\ TimelineDragged.endSec[1] <= clipDuration

\* C6: every overlay whose startSec and endSec are both set satisfies
\* 0 <= startSec < endSec <= clipDuration, in every state reached by adding
\* overlays, timeline drags, the Start/End sliders and trim changes.
C6_IntervalInClip ==
  \A t \in Overlays :
    BothSet(t) =>
      /\ 0 <= t.startSec[1]
      /\ t.startSec[1] < t.endSec[1]
      /\ t.endSec[1] <= clipDuration

\* C7: an overlay is in the visible set iff resolvedStart <= relTime <=
\* resolvedEnd, both bounds inclusive, relTime = currentTime - clipStart, a
\* null startSec resolved to 0 and a null endSec to clipDuration.
C7_VisibleIffInInterval ==
  \A t \in Overlays :
    LET s == IF t.startSec = Null THEN 0 ELSE t.startSec[1]
        e == IF t.endSec = Null THEN (moment.endTime + edits.trimEnd)
                                       - (moment.startTime + edits.trimStart)
             ELSE t.endSec[1]
        rel == currentTime - (moment.startTime + edits.trimStart)
    IN (t.id \in visibleOverlayIds) <=> (s <= rel /\ rel <= e)

\* the playhead stands exactly on the end of an overlay with a set interval,
\* after its start, and the overlay is visible
C7_Witness ==
  \E t \in Overlays :
    /\ BothSet(t)
    /\ relTime = t.endSec[1]
    /\ relTime > t.startSec[1]
    /\ t.id \in visibleOverlayIds

\* C10: for an overlay with startSec = null and endSec = null at drag start on
\* a clip of duration D (so the drag is anchored at 0..D, and D stays the same
\* during the drag), a resize-left move of d seconds' worth of pixels to the
\* right, 0 <= d <= D - 0.5, stores startSec = d and endSec = D as numbers.
C10_NullMaterialized ==
  LET D == timelineEffect.clipDuration
      d == ((lastCall.cx - timelineDragRef.startX) * D) \div lastCall.w
      atStart == Find(timelineEffect.edits.textOverlays, timelineEffect.id)
  IN (/\ AfterTimelineMove
      /\ timelineEffect.edge = "left"
      /\ atStart.startSec = Null /\ atStart.endSec = Null
      /\ timelineDragRef.origStart = 0
      /\ timelineDragRef.origEnd = D
      /\ 0 <= d /\ d <= D - 5)
     => /\ TimelineDragged.startSec = <<d>>
        /\ TimelineDragged.endSec = <<D>>

\* the left handle of a null/null overlay was dragged one second to the right
C10_Witness ==
  /\ AfterTimelineMove
  /\ timelineEffect.edge = "left"
  /\ Find(timelineEffect.edits.textOverlays, timelineEffect.id).startSec = Null
  /\ Find(timelineEffect.edits.textOverlays, timelineEffect.id).endSec = Null
  /\ timelineDragRef.origStart = 0
  /\ timelineDragRef.origEnd = timelineEffect.clipDuration
  /\ TimelineDragged.startSec = <<10>>
  /\ TimelineDragged.endSec = <<clipDuration>>

\* C8: removeOverlay(id) on the selected overlay removes it from the list and
\* sets the selection to none; removeOverlay(id) for an id that is not in the
\* list leaves the list (contents and order) and the selection unchanged.
C8_RemoveOverlay ==
  (lastCall.op = "removeOverlay") =>
    LET id == lastCall.id
        before == lastCall.list
        had == \E i \in 1..Len(before) : before[i].id = id
    IN /\ (had /\ lastCall.selected = id) =>
            /\ edits.textOverlays = SelectSeq(before, LAMBDA t : t.id # id)
            /\ selectedOverlayId = 0
       /\ (~had) =>
            /\ edits.textOverlays = before
            /\ selectedOverlayId = lastCall.selected

\* C9: updateOverlay(id, {}) leaves every field of every overlay and the
\* order of the list unchanged, whether or not id is in the list.
C9_EmptyPatchChangesNothing ==
  (lastCall.op = "updateOverlay") => edits.textOverlays = lastCall.list

\* the empty patch was applied to the first of two overlays
C9_Witness ==
  /\ lastCall.op = "updateOverlay"
  /\ Len(lastCall.list) = 2
  /\ lastCall.list[1].id = lastCall.id
  /\ lastCall.list[1] # lastCall.list[2]

\* C14: for every trimStart and trimEnd the trim sliders allow, the clip
\* window satisfies clipEnd > clipStart, i.e. clipDuration > 0.
C14_ClipWindowPositive ==
  (/\ edits.trimStart >= 0
   /\ edits.trimStart * 10 <= (moment.endTime - moment.startTime) * 8
   /\ edits.trimEnd <= 0
   /\ (0 - edits.trimEnd) * 10 <= (moment.endTime - moment.startTime) * 8
   /\ moment.endTime > moment.startTime)
  => (moment.endTime + edits.trimEnd > moment.startTime + edits.trimStart)

\* C15: a resize-left move stores startSec = clamp(anchorStart + d, 0,
\* anchorEnd - 0.5) and never a startSec < 0; a resize-right move stores
\* endSec = clamp(anchorEnd + d, anchorStart + 0.5, clipDuration) and never an
\* endSec > clipDuration, for every interval present at drag start.
C15_ResizeStaysInClip ==
  LET D == (moment.endTime + edits.trimEnd) - (moment.startTime + edits.trimStart)
      d == ((lastCall.cx - timelineDragRef.startX) * D) \div lastCall.w
      os == timelineDragRef.origStart
      oe == timelineDragRef.origEnd
      lo(a, b) == IF a < b THEN a ELSE b
      hi(a, b) == IF a > b THEN a ELSE b
  IN /\ (AfterTimelineMove /\ timelineEffect.edge = "left") =>
          /\ TimelineDragged.startSec = <<lo(hi(0, os + d), oe - 5)>>
          /\ TimelineDragged.startSec[1] >= 0
     /\ (AfterTimelineMove /\ timelineEffect.edge = "right") =>
          /\ TimelineDragged.endSec = <<hi(lo(D, oe + d), os + 5)>>
          /\ TimelineDragged.endSec[1] <= D

\* C11: in every reachable state at most one drag session is active: a
\* position drag and a timeline drag are never active at the same time.
C11_OneDragSession ==
  ~(draggingTextId # 0 /\ draggingTimelineId # 0)

\* C12: a pointer-up delivered while a drag session is active ends it:
\* immediately afterwards no dragged overlay id, no gesture kind and no anchor
\* record of that session remains, and no drag listener is left that a later
\* pointer-move could reach.
C12_PointerUpEndsSession ==
  (lastCall.op = "WindowMouseUp") =>
    /\ lastCall.text =>
         /\ draggingTextId = 0
         /\ dragStartRef = <<>>
         /\ textListeners = 0
    /\ lastCall.timeline =>
         /\ draggingTimelineId = 0
         /\ draggingTimelineEdge = "null"
         /\ timelineDragRef = <<>>
         /\ timelineListeners = 0

\* C13: if the dragged overlay has been removed while its drag session is
\* active, a move event of that session is a no-op: the list stays as it was
\* after the removal and the removed overlay does not reappear.
C13_MoveAfterRemoveIsNoOp ==
  LET had(id) == \E i \in 1..Len(lastCall.list) : lastCall.list[i].id = id
  IN /\ (lastCall.op = "TextOnMouseMove" /\ draggingTextId # 0 /\ ~had(draggingTextId))
          => edits.textOverlays = lastCall.list
     /\ (lastCall.op = "TimelineOnMouseMove" /\ draggingTimelineId # 0
           /\ ~had(draggingTimelineId))
          => edits.textOverlays = lastCall.list

\* C16: within one drag session the stored result depends only on the
\* session's anchor and the current pointer position: after any sequence of
\* move events ending at pointer position p the dragged overlay's x,y
\* (position drag) or startSec,endSec (timeline drag) are what a single move
\* to p from the anchor produces.
C16_MoveIsFunctionOfAnchor ==
  LET lo(a, b) == IF a < b THEN a ELSE b
      hi(a, b) == IF a > b THEN a ELSE b
      snap(v) == IF v > 47 /\ v < 53 THEN 50 ELSE v
  IN /\ (lastCall.op = "TextOnMouseMove" /\ dragStartRef # NoRef) =>
          LET px == dragStartRef.textX
                      + ((lastCall.cx - dragStartRef.mouseX) * 100) \div lastCall.w
              py == dragStartRef.textY
                      + ((lastCall.cy - dragStartRef.mouseY) * 100) \div lastCall.h
          IN /\ Present(draggingTextId)
             /\ Dragged.x = snap(lo(100, hi(0, px)))
             /\ Dragged.y = snap(lo(100, hi(0, py)))
     /\ AfterTimelineMove =>
          LET D == (moment.endTime + edits.trimEnd) - (moment.startTime + edits.trimStart)
              d == ((lastCall.cx - timelineDragRef.startX) * D) \div lastCall.w
              os == timelineDragRef.origStart
              oe == timelineDragRef.origEnd
              ms == lo(hi(0, os + d), D - (oe - os))
              want == IF timelineEffect.edge = "left"
                      THEN <<lo(hi(0, os + d), oe - 5), oe>>
                      ELSE IF timelineEffect.edge = "right"
                      THEN <<os, hi(lo(D, oe + d), os + 5)>>
                      ELSE <<ms, ms + (oe - os)>>
          IN /\ TimelineDragged.startSec = <<want[1]>>
             /\ TimelineDragged.endSec = <<want[2]>>

\* a second move of a timeline session: the move before it had taken the
\* overlay away from the anchor, and this one took it somewhere else again
C16_Witness ==
  /\ AfterTimelineMove
  /\ \E i \in 1..Len(lastCall.list) :
       /\ lastCall.list[i].id = timelineEffect.id
       /\ lastCall.list[i].startSec # Null
       /\ lastCall.list[i].startSec # <<timelineDragRef.origStart>>
       /\ lastCall.list[i].startSec # TimelineDragged.startSec
  /\ TimelineDragged.startSec # <<timelineDragRef.origStart>>

\* C17: updateOverlay(id, patch) replaces by id: the resulting list has the
\* same length and order, the overlay with that id has exactly the patched
\* fields changed, every other overlay is unchanged, and the list held by an
\* earlier snapshot is not modified.
C17_ReplaceById ==
  (lastCall.op = "updateOverlayPatch") =>
    LET before == lastCall.list
        after == edits.textOverlays
    IN /\ Len(after) = Len(before)
       /\ \A i \in 1..Len(before) :
            /\ after[i].id = before[i].id
            /\ before[i].id # lastCall.id => after[i] = before[i]
            /\ before[i].id = lastCall.id =>
                 \A f \in DOMAIN before[i] :
                   after[i][f] = IF f \in DOMAIN lastCall.patch
                                 THEN lastCall.patch[f] ELSE before[i][f]
       /\ textEffect = lastCall.snapshot

\* the second of two overlays was patched, its old values differed from the
\* patch, and a drag session holds a snapshot of the list
C17_Witness ==
  /\ lastCall.op = "updateOverlayPatch"
  /\ Len(lastCall.list) = 2
  /\ lastCall.list[2].id = lastCall.id
  /\ edits.textOverlays[2] # lastCall.list[2]
  /\ edits.textOverlays[1] = lastCall.list[1]
  /\ lastCall.snapshot # NoEffect

\* C18: no lost update during a drag: an edit applied to the clip's edits
\* between the pointer-down of a session and a later move event is still
\* there after the move; a move changes only the dragged overlay's x,y
\* (position drag) or startSec,endSec (timeline drag).
C18_NoLostUpdate ==
  LET before == lastCall.list
      after == edits.textOverlays
      only(id, fields) ==
        /\ Len(after) = Len(before)
        /\ \A i \in 1..Len(before) :
             /\ after[i].id = before[i].id
             /\ before[i].id # id => after[i] = before[i]
             /\ before[i].id = id =>
                  \A f \in DOMAIN before[i] \ fields : after[i][f] = before[i][f]
  IN /\ (lastCall.op = "TextOnMouseMove" /\ dragStartRef # NoRef)
          => only(draggingTextId, {"x", "y"})
     /\ (lastCall.op = "TimelineOnMouseMove" /\ timelineDragRef # NoRef)
          => only(draggingTimelineId, {"startSec", "endSec"})

\* C19: the window listeners of a drag effect are registered exactly while its
\* session is active: none without a session, one pair with one, never two
\* pairs at a time (every registration is undone by one removal).
C19_ListenersWhileSession ==
  /\ textListeners = (IF draggingTextId # 0 THEN 1 ELSE 0)
  /\ timelineListeners =
       (IF draggingTimelineId # 0 /\ draggingTimelineEdge # "null" THEN 1 ELSE 0)

\* a second press on another glyph with no release in between: the effect has
\* run again for the new id and holds one pair of listeners
C19_Witness ==
  /\ lastCall.op = "handleTextMouseDown"
  /\ lastCall.dragging # 0
  /\ lastCall.dragging # lastCall.id
  /\ draggingTextId = lastCall.id
  /\ textListeners = 1

\* C20: a pointer-down that starts a position drag or a timeline drag on
\* overlay o sets the selection to o, whatever was selected before, and leaves
\* expandedId unchanged.
C20_DownSelectsOnly ==
  (lastCall.op \in {"handleTextMouseDown", "handleTimelineMouseDown"}) =>
    /\ selectedOverlayId = lastCall.id
    /\ expandedId = lastCall.expanded

\* the press on a timeline bar moved the selection from the other overlay,
\* whose detail panel stays the open one
C20_Witness ==
  /\ lastCall.op = "handleTimelineMouseDown"
  /\ lastCall.selected # 0
  /\ lastCall.selected # lastCall.id
  /\ selectedOverlayId = lastCall.id
  /\ expandedId = lastCall.selected
  /\ draggingTimelineId = lastCall.id

\* C21: the two guide flags track snapping: after a position-drag move the x
\* flag is true iff that move snapped x to 0.5 and the y flag is true iff it
\* snapped y; whenever no position drag is active both flags are false.
C21_GuidesTrackSnapping ==
  LET near(v) == v > 47 /\ v < 53
      clamp(v) == IF v < 0 THEN 0 ELSE IF v > 100 THEN 100 ELSE v
  IN /\ AfterTextMove =>
          LET candX == dragStartRef.textX
                         + ((lastCall.cx - dragStartRef.mouseX) * 100) \div lastCall.w
              candY == dragStartRef.textY
                         + ((lastCall.cy - dragStartRef.mouseY) * 100) \div lastCall.h
          IN /\ Present(draggingTextId)
             /\ snapGuides.x <=> near(clamp(candX))
             /\ snapGuides.x <=> (Dragged.x = 50)
             /\ snapGuides.y <=> near(clamp(candY))
             /\ snapGuides.y <=> (Dragged.y = 50)
     /\ (draggingTextId = 0) => (~snapGuides.x /\ ~snapGuides.y)

\* a move of the pointer that left the candidate x within the threshold of
\* the centre line has snapped x and raised the x flag alone
C21_Witness ==
  /\ AfterTextMove
  /\ Present(draggingTextId)
  /\ dragStartRef.textX = HalfPos
  /\ dragStartRef.mouseX # lastCall.cx
  /\ snapGuides.x
  /\ ~snapGuides.y
  /\ Dragged.x = HalfPos

\* C22: a click on the timeline track at horizontal offset p pixels inside a
\* track of width W sets the video time to clipStart + p / (W / clipDuration);
\* for every click inside the track the resulting time lies in
\* [clipStart, clipEnd].
C22_ClickSeeksInsideClip ==
  (lastCall.op = "handleTimelineClick") =>
    LET cs == moment.startTime + edits.trimStart
        ce == moment.endTime + edits.trimEnd
    IN /\ videoTime * lastCall.w = cs * lastCall.w + lastCall.p * (ce - cs)
       /\ (0 <= lastCall.p /\ lastCall.p <= lastCall.w) =>
            (cs <= videoTime /\ videoTime <= ce)

\* C23: the video is seeked by the timeline only for clicks on the track
\* background: a press-and-release on an overlay's bar or on one of its resize
\* handles, including the release that ends a move or resize drag, never
\* changes the video's current time.
C23_OnlyBackgroundSeeks ==
  (lastCall.op \in {"ReleaseOnHandle", "ReleaseOnBar"}) => videoTime = lastCall.time

\* C27: playback stays inside the clip window: seek(delta) always leaves the
\* video time in [clipStart, clipEnd]; whenever a time update reports a time
\* >= clipEnd the video is paused, its time reset to clipStart and isPlaying
\* set false; and togglePlay from a paused state at or past clipEnd restarts
\* from clipStart.
C27_PlaybackInsideClip ==
  LET cs == moment.startTime + edits.trimStart
      ce == moment.endTime + edits.trimEnd
  IN /\ (lastCall.op = "seek") => (cs <= videoTime /\ videoTime <= ce)
     /\ (lastCall.op = "onTime" /\ lastCall.reported >= ce) =>
          (~isPlaying /\ videoTime = cs)
     /\ (lastCall.op = "togglePlay" /\ ~lastCall.wasPlaying /\ lastCall.time >= ce) =>
          (isPlaying /\ videoTime = cs)

\* C24: addTextOverlay with non-blank text appends exactly one overlay at the
\* end of the list (existing overlays and their order unchanged) with x = 0.5,
\* y = 0.85, startSec = max(0, relTime) and endSec = min(clipDuration,
\* relTime + 3) where relTime = currentTime - clipStart, and makes it the
\* selected and expanded overlay; with empty or whitespace-only text it
\* changes nothing.
C24_AddAppendsOne ==
  (lastCall.op = "addTextOverlay") =>
    LET before == lastCall.list
        after == edits.textOverlays
        cs == moment.startTime + edits.trimStart
        D == (moment.endTime + edits.trimEnd) - cs
        rel == lastCall.time - cs
    IN IF lastCall.text \in {"", " "}
       THEN /\ after = before
            /\ selectedOverlayId = lastCall.selected
            /\ expandedId = lastCall.expanded
            /\ newText = lastCall.text
            /\ currentTime = lastCall.time
       ELSE /\ Len(after) = Len(before) + 1
            /\ \A i \in 1..Len(before) : after[i] = before[i]
            /\ LET o == after[Len(after)]
               IN /\ o.text = lastCall.text
                  /\ o.x = 50
                  /\ o.y = 85
                  /\ o.startSec = <<IF rel > 0 THEN rel ELSE 0>>
                  /\ o.endSec = <<IF D < rel + 30 THEN D ELSE rel + 30>>
                  /\ selectedOverlayId = o.id
                  /\ expandedId = o.id

\* a second overlay was appended with the playhead less than 3 s before the
\* end of the clip, while the first one was the selected and expanded one
C24_Witness ==
  /\ lastCall.op = "addTextOverlay"
  /\ lastCall.text = "hi"
  /\ Len(lastCall.list) = 1
  /\ Len(edits.textOverlays) = 2
  /\ lastCall.selected = lastCall.list[1].id
  /\ selectedOverlayId = edits.textOverlays[2].id
  /\ relTime > 0
  /\ relTime + DefaultSpan > clipDuration
  /\ edits.textOverlays[2].endSec = Num(clipDuration)

\* C25: after any change of startSec or endSec made through the Start and End
\* form sliders, the overlay's interval is not inverted and satisfies
\* endSec - startSec >= MIN_SEGMENT (0.5 s): an out-of-range or inverted value
\* is corrected before it is stored.
C25_SlidersKeepMinSegment ==
  (lastCall.op \in {"SetStartSec", "SetEndSec"}) =>
    \A t \in Overlays :
      (t.id = lastCall.id) =>
        LET s == IF t.startSec = Null THEN 0 ELSE t.startSec[1]
            e == IF t.endSec = Null
                 THEN (moment.endTime + edits.trimEnd)
                        - (moment.startTime + edits.trimStart)
                 ELSE t.endSec[1]
        IN e - s >= 5

\* C26: an overlay's glyph is present on the preview (and can start a position
\* drag) iff the overlay is visible at the current relTime or is the selected
\* overlay; a selected overlay outside its time interval is present but drawn
\* with opacity 0, and a non-selected overlay outside its interval is absent.
C26_GlyphPresence ==
  LET cs == moment.startTime + edits.trimStart
      D == (moment.endTime + edits.trimEnd) - cs
      inside(t, time) ==
        LET s == IF t.startSec = Null THEN 0 ELSE t.startSec[1]
            e == IF t.endSec = Null THEN D ELSE t.endSec[1]
        IN s <= time - cs /\ time - cs <= e
  IN /\ \A t \in Overlays :
          LET within == inside(t, currentTime)
              sel == selectedOverlayId = t.id
          IN /\ GlyphRendered(t.id) <=> (within \/ sel)
             /\ within => GlyphOpacity(t.id) = 1
             /\ (sel /\ ~within) => (GlyphRendered(t.id) /\ GlyphOpacity(t.id) = 0)
             /\ (~sel /\ ~within) => ~GlyphRendered(t.id)
     /\ (lastCall.op = "handleTextMouseDown") =>
          \E i \in 1..Len(lastCall.list) :
            /\ lastCall.list[i].id = lastCall.id
            /\ (inside(lastCall.list[i], lastCall.time) \/ lastCall.selected = lastCall.id)

\* a position drag was started on the glyph of the selected overlay while the
\* playhead is outside its interval (opacity 0), and the other overlay, not
\* selected and outside its interval too, has no glyph
C26_Witness ==
  /\ lastCall.op = "handleTextMouseDown"
  /\ draggingTextId = lastCall.id
  /\ lastCall.selected = lastCall.id
  /\ lastCall.id \notin visibleOverlayIds
  /\ GlyphRendered(lastCall.id)
  /\ GlyphOpacity(lastCall.id) = 0
  /\ \E t \in Overlays :
       /\ t.id # lastCall.id
       /\ t.id \notin visibleOverlayIds
       /\ ~GlyphRendered(t.id)

C29_FlagsReflectExports ==
  LET uploading == { id \in DOMAIN exports : exports[id] = "upload" }
      started == { id \in DOMAIN exports : exports[id] # "idle" }
  IN /\ (uploading # {}) => (isExporting /\ exportingId \in uploading)
     /\ (started = {}) => (~isExporting /\ exportingId = "null")

\* C30: after any sequence of saveProject and deleteProject calls the stored
\* project list holds at most 20 projects and no two with the same id; saving
\* a project whose id is already stored replaces it at its existing position,
\* saving a new one puts it first, deleteProject removes exactly the project
\* with that id, and no stored or loaded project carries a localVideoUrl.
C30_ProjectStore ==
  LET n == Len(storage)
      bare(p) == [f \in DOMAIN p \ {"localVideoUrl"} |-> p[f]]
  IN /\ n <= 20
     /\ \A i, j \in 1..n : i # j => storage[i].id # storage[j].id
     /\ \A i \in 1..n : "localVideoUrl" \notin DOMAIN storage[i]
     /\ \A i \in 1..n : loadProjects[i].localVideoUrl = "undefined"
     /\ \A id \in 1..MaxProjects :
          getProject(id) # Null => getProject(id).localVideoUrl = "undefined"
     /\ (lastCall.op = "saveProject") =>
          LET b == lastCall.before
              p == lastCall.project
          IN IF \E i \in 1..Len(b) : b[i].id = p.id
             THEN /\ n = Len(b)
                  /\ \A i \in 1..n :
                       storage[i] = IF b[i].id = p.id THEN bare(p) ELSE b[i]
             ELSE /\ n = (IF Len(b) < 20 THEN Len(b) + 1 ELSE 20)
                  /\ storage[1] = bare(p)
                  /\ \A i \in 2..n : storage[i] = b[i - 1]
     /\ (lastCall.op = "deleteProject") =>
          storage = SelectSeq(lastCall.before, LAMBDA p : p.id # lastCall.id)

\* a new project that carries the object URL of its video was saved into a
\* full store: it is first, without the URL, and the last one was dropped
C30_Witness ==
  /\ lastCall.op = "saveProject"
  /\ Len(lastCall.before) = STORE_LIMIT
  /\ \A i \in 1..Len(lastCall.before) : lastCall.before[i].id # lastCall.project.id
  /\ lastCall.project.localVideoUrl # Undefined
  /\ Len(storage) = STORE_LIMIT
  /\ storage[1].id = lastCall.project.id
  /\ storage[2] = lastCall.before[1]

====
